---- MODULE Spec2Model ----
(***************************************************************************)
(* The two lifecycle-hook handlers of ecs-cluster-manager:                 *)
(*   src/lambda/ecs-lifecycle-hook-launch.py     (join path)               *)
(*   src/lambda/ecs-lifecycle-hook-terminate.py  (retirement path)         *)
(* One paused scaling transition of one instance is followed through the   *)
(* invocations it triggers.  Every external call of a handler is a step    *)
(* that may fail; the control planes answer nondeterministically.          *)
(* Wall-clock time is in seconds, the remaining execution time in          *)
(* milliseconds, as in the code.  Only time.sleep lets time pass.          *)
(***************************************************************************)
EXTENDS Integers, Sequences, FiniteSets, TLC

\* ------------------------------------------------------------ constants
GlobalTimeout == 3600
SleepSeconds == 30

\* a margin shorter than one sleep
MarginShort == 10 * 1000

MarginMillis == 40000

SleepMillis == SleepSeconds * 1000

\* -------------------------------------------------------------- bounds
\* sleeps one invocation's time budget leaves room for
MaxSleeps == 1
\* pages plus entries of one paginated listing
MaxListing == 3
\* external calls that fail during one transition
MaxFailures == 2
\* running or pending tasks a poll may report
MaxTasks == 1

\* remaining execution time at the start of an invocation
Budgets == {MarginMillis + k * SleepMillis : k \in 1..MaxSleeps}

\* ---------------------------------------------------------------- data
InstanceId == "i-1"
OtherInstanceId == "i-2"

Unset == "unset"

\* a paginated listing: at least one page, pages plus entries at most n
RECURSIVE Listings(_, _)
Listings(K, n) ==
    IF n < 1 THEN {}
    ELSE LET firsts == UNION {[1..m -> K] : m \in 0..(n - 1)}
         IN  UNION {{<<p>>} \cup {<<p>> \o rest : rest \in Listings(K, n - 1 - Len(p))}
                    : p \in firsts}

\* every entry of a listing, in listing order
RECURSIVE Flatten(_)
Flatten(pages) ==
    IF pages = <<>> THEN <<>> ELSE Head(pages) \o Flatten(Tail(pages))

\* boot configuration: the settings of the user data, in order
UserDatas ==
    { << [key |-> "ECS_AVAILABLE_LOGGING_DRIVERS", value |-> "json-file"] >>,
      << [key |-> "ECS_AVAILABLE_LOGGING_DRIVERS", value |-> "json-file"],
         [key |-> "ECS_CLUSTER", value |-> "prod-cluster"] >> }

\* cluster members as describe_container_instances reports them
ContainerInstanceArn(i) == IF i = InstanceId THEN "ci-1" ELSE "ci-2"

Member(i, s, a) ==
    [ec2InstanceId |-> i, containerInstanceArn |-> ContainerInstanceArn(i),
     status |-> s, agentConnected |-> a]

MemberKinds ==
    { Member(InstanceId, "ACTIVE", TRUE),
      Member(InstanceId, "ACTIVE", FALSE),
      Member(InstanceId, "INACTIVE", TRUE),
      Member(OtherInstanceId, "ACTIVE", TRUE) }

MemberListings == Listings(MemberKinds, MaxListing)

\* a service is its event messages, most recent first
SteadyMessage == "service web has reached a steady state."
OtherMessage == "service web has started 1 tasks."

ServiceKinds ==
    { <<>>, <<SteadyMessage, OtherMessage>>, <<OtherMessage, SteadyMessage>> }

ServiceListings == Listings(ServiceKinds, MaxListing)

Task(l, d) == [lastStatus |-> l, desiredStatus |-> d]

TaskKinds ==
    { Task("RUNNING", "RUNNING"), Task("STOPPED", "STOPPED"),
      Task("RUNNING", "STOPPED") }

TaskListings == Listings(TaskKinds, MaxListing)

\* scaling activities: the description's verb and instance, and the start time
Activity(v, i, t) == [verb |-> v, instance |-> i, StartTime |-> t]

\* The action began one sleep short of the global timeout before the first
\* invocation (the clock starts at 0).
ActionStart == SleepSeconds - GlobalTimeout

\* The first clock value at which that action is older than the global
\* timeout.  A heartbeat sent later is not followed any further.
MaxNow == ActionStart + GlobalTimeout + SleepSeconds

\* no record; the record of the instance's launch; the record of its
\* termination among the records of another instance
NoHistory == << <<>> >>

LaunchHistory == << <<Activity("Launching", InstanceId, ActionStart)>> >>

TerminateHistory ==
    << <<Activity("Terminating", OtherInstanceId, 0 - GlobalTimeout)>>,
       <<Activity("Terminating", InstanceId, ActionStart),
         Activity("Launching", OtherInstanceId, 0)>> >>

\* the record of the termination with a start time ahead of the clock
FutureHistory ==
    << <<Activity("Terminating", InstanceId, MaxNow + SleepSeconds)>> >>

\* two records of the instance's termination on two pages, each followed by
\* a record that does not match
RepeatedHistory ==
    << <<Activity("Terminating", InstanceId, ActionStart - SleepSeconds),
         Activity("Terminating", OtherInstanceId, 0 - GlobalTimeout)>>,
       <<Activity("Terminating", InstanceId, ActionStart),
         Activity("Launching", InstanceId, 0)>> >>

ActivityHistories ==
    {NoHistory, LaunchHistory, TerminateHistory, FutureHistory, RepeatedHistory}

\* what the paused transition is known by
HookName == "drain-hook"
GroupName == "ecs-asg"
ActionToken == "token-1"

\* the four canonical fields of a hook message
CanonicalKeys ==
    {"LifecycleHookName", "AutoScalingGroupName", "LifecycleActionToken",
     "EC2InstanceId"}

\* the scaling group's notification: the direct shape
DirectEvent ==
    [detail |-> [LifecycleHookName |-> HookName,
                 AutoScalingGroupName |-> GroupName,
                 LifecycleActionToken |-> ActionToken,
                 EC2InstanceId |-> InstanceId,
                 LifecycleTransition |-> "autoscaling:EC2_INSTANCE_TERMINATING"]]

\* the recorded heartbeat call, echoed with the parameters it was made with:
\* the heartbeat shape
HeartbeatEvent(args) ==
    [detail |-> [eventName |-> "RecordLifecycleActionHeartbeat",
                 requestParameters |->
                     [lifecycleHookName |-> args.LifecycleHookName,
                      autoScalingGroupName |-> args.AutoScalingGroupName,
                      lifecycleActionToken |-> args.LifecycleActionToken,
                      instanceId |-> args.InstanceId]]]

\* the request parameters the normalization reads, in the order it reads
\* them, and the canonical key each one is copied to
HeartbeatKeys ==
    <<"instanceId", "lifecycleHookName", "autoScalingGroupName",
      "lifecycleActionToken">>

CopiedTo ==
    <<"EC2InstanceId", "LifecycleHookName", "AutoScalingGroupName",
      "LifecycleActionToken">>

\* a recorded heartbeat call made without one of the four parameters
MalformedEvents(args) ==
    LET rp == HeartbeatEvent(args).detail.requestParameters
    IN  {[detail |-> [eventName |-> "RecordLifecycleActionHeartbeat",
                      requestParameters |-> [k \in DOMAIN rp \ {lost} |-> rp[k]]]]
         : lost \in {HeartbeatKeys[i] : i \in 1..Len(HeartbeatKeys)}}

\* an empty dict
Empty == <<>>

\* ------------------------------------------------------- pure functions
NotFound == "ValueError"

\* the heartbeat parameters copied to the wrong canonical keys
NormalizeCrossed(detail) ==
    IF "LifecycleHookName" \in DOMAIN detail THEN detail
    ELSE LET rp == detail.requestParameters
         IN  [k \in DOMAIN rp \cup CanonicalKeys |->
                 CASE k = "EC2InstanceId" -> rp.instanceId
                   [] k = "LifecycleHookName" -> rp.autoScalingGroupName
                   [] k = "AutoScalingGroupName" -> rp.lifecycleHookName
                   [] k = "LifecycleActionToken" -> rp.lifecycleActionToken
                   [] OTHER -> rp[k]]

\* lambda_handler, normalization: the detail of a direct payload as it is,
\* the request parameters of a heartbeat payload with the four canonical keys
\* added
Normalize(detail) ==
    IF "LifecycleHookName" \in DOMAIN detail THEN detail
    ELSE LET rp == detail.requestParameters
         IN  [k \in DOMAIN rp \cup CanonicalKeys |->
                 CASE k = "EC2InstanceId" -> rp.instanceId
                   [] k = "LifecycleHookName" -> rp.lifecycleHookName
                   [] k = "AutoScalingGroupName" -> rp.autoScalingGroupName
                   [] k = "LifecycleActionToken" -> rp.lifecycleActionToken
                   [] OTHER -> rp[k]]

\* the reads of the normalization that raise KeyError
MissingReads(detail) ==
    IF "LifecycleHookName" \in DOMAIN detail THEN {}
    ELSE {i \in 1..Len(HeartbeatKeys) :
             HeartbeatKeys[i] \notin DOMAIN detail.requestParameters}

\* lambda_handler, normalization that fails: the request parameters with the
\* canonical keys copied before the first read that raises
NormalizePartial(detail) ==
    LET rp == detail.requestParameters
        first == CHOOSE i \in MissingReads(detail) :
                     \A j \in MissingReads(detail) : i <= j
        copied == {i \in 1..Len(HeartbeatKeys) : i < first}
    IN  [k \in DOMAIN rp \cup {CopiedTo[i] : i \in copied} |->
            IF k \in DOMAIN rp THEN rp[k]
            ELSE rp[HeartbeatKeys[CHOOSE i \in copied : CopiedTo[i] = k]]]

\* the parameters of a reporting command
ReportArgs(hm) ==
    [LifecycleHookName |-> hm.LifecycleHookName,
     AutoScalingGroupName |-> hm.AutoScalingGroupName,
     LifecycleActionToken |-> hm.LifecycleActionToken,
     InstanceId |-> hm.EC2InstanceId]

\* the DRAINING command is also sent to a member that is DRAINING
NeedsDrainTwice(status) == status \in {"ACTIVE", "DRAINING"}

\* drain_instance: the status that gets the DRAINING command
NeedsDrain(status) == status = "ACTIVE"

\* the test of the running count alone
TasksGoneRunning(r, p) == r = 0

\* check_instance_drained: both counts of a poll are zero
TasksGone(r, p) == r = 0 /\ p = 0

\* find_cluster_name: the value of the first ECS_CLUSTER setting
FindClusterNameOf(ud) ==
    LET hits == {i \in 1..Len(ud) : ud[i].key = "ECS_CLUSTER"}
    IN  IF hits = {} THEN NotFound
        ELSE ud[CHOOSE i \in hits : \A j \in hits : i <= j].value

\* find_container_instance_id: the first listed member of that instance
RECURSIVE FirstMemberArn(_, _)
FirstMemberArn(entries, id) ==
    IF entries = <<>> THEN NotFound
    ELSE IF Head(entries).ec2InstanceId = id THEN Head(entries).containerInstanceArn
    ELSE FirstMemberArn(Tail(entries), id)

FindContainerInstanceIdOf(pages, id) == FirstMemberArn(Flatten(pages), id)

\* the tests without the one of the agent's connection
MemberActive(m, id) ==
    /\ m.ec2InstanceId = id
    /\ m.status = "ACTIVE"

\* container_instance_healthy, one sweep: a listed member passes the three tests
MemberHealthy(m, id) ==
    /\ m.ec2InstanceId = id
    /\ m.status = "ACTIVE"
    /\ m.agentConnected = TRUE

SweepHealthy(pages, id) ==
    \E i \in 1..Len(Flatten(pages)) : MemberHealthy(Flatten(pages)[i], id)

\* check_stable_cluster, services: events[0] of a service without events
\* raises IndexError
ServicesRaise(pages) ==
    \E i \in 1..Len(Flatten(pages)) : Flatten(pages)[i] = <<>>

ServiceReady(service) == service[1] = SteadyMessage

RECURSIVE ServicePage(_, _)
ServicePage(entries, stable) ==
    IF entries = <<>> THEN stable
    ELSE ServicePage(Tail(entries),
                     IF ServiceReady(Head(entries)) THEN stable ELSE FALSE)

\* the loop over the pages: an empty page sets services_stable to True
RECURSIVE ServicePages(_, _)
ServicePages(pages, stable) ==
    IF pages = <<>> THEN stable
    ELSE IF Len(Head(pages)) < 1 THEN ServicePages(Tail(pages), TRUE)
    ELSE ServicePages(Tail(pages), ServicePage(Head(pages), stable))

ServicesSweep(pages) == ServicePages(pages, TRUE)

\* check_stable_cluster, tasks
TaskMatched(task) == task.lastStatus = task.desiredStatus

RECURSIVE TaskPage(_, _)
TaskPage(entries, stable) ==
    IF entries = <<>> THEN stable
    ELSE TaskPage(Tail(entries),
                  IF TaskMatched(Head(entries)) THEN stable ELSE FALSE)

\* the loop over the pages: an empty page sets tasks_stable to True
RECURSIVE TaskPages(_, _)
TaskPages(pages, stable) ==
    IF pages = <<>> THEN stable
    ELSE IF Len(Head(pages)) < 1 THEN TaskPages(Tail(pages), TRUE)
    ELSE TaskPages(Tail(pages), TaskPage(Head(pages), stable))

\* the pattern with the verb of a launch
ActivityMatchesLaunching(a, id) == a.verb = "Launching" /\ a.instance = id

\* find_hook_duration: re.match("Terminating.*<instance_id>", Description)
ActivityMatches(a, id) == a.verb = "Terminating" /\ a.instance = id

\* the first matching record is kept
RECURSIVE HookStartTimeFirst(_, _, _)
HookStartTimeFirst(entries, id, start) ==
    IF entries = <<>> THEN start
    ELSE IF ActivityMatches(Head(entries), id) THEN Head(entries).StartTime
    ELSE HookStartTimeFirst(Tail(entries), id, start)

\* every matching record overwrites hook_start_time
RECURSIVE HookStartTime(_, _, _)
HookStartTime(entries, id, start) ==
    IF entries = <<>> THEN start
    ELSE HookStartTime(Tail(entries), id,
                       IF ActivityMatches(Head(entries), id)
                       THEN Head(entries).StartTime ELSE start)

\* the difference taken the other way round
HookDurationBackwards(pages, id, t) == HookStartTime(Flatten(pages), id, t) - t

HookDurationOf(pages, id, t) == t - HookStartTime(Flatten(pages), id, t)

\* the decision with the threshold compared by >=
DecisionAtThreshold(duration) ==
    IF duration >= GlobalTimeout THEN "ABANDON" ELSE "HEARTBEAT"

\* the decision after an inconclusive probe
Decision(duration) == IF duration > GlobalTimeout THEN "ABANDON" ELSE "HEARTBEAT"

\* ---------------------------------------------------------------- state
VARIABLES
    path,                  \* "launch" or "terminate": the handler the hook triggers
    userData,              \* the instance's boot configuration
    activities,            \* the scaling group's activity history, paginated
    memberStatus,          \* status of the instance's cluster member
    now,                   \* wall clock, seconds
    transition,            \* "pending", or the result that completed it
    failures,              \* external calls that failed so far
    heartbeats,            \* heartbeats the scaling group has recorded
    pc,                    \* position of the running invocation
    remaining,             \* context.get_remaining_time_in_millis()
    bound,                 \* the handler's locals that are assigned
    cluster_name,
    container_instance_id,
    healthy,               \* result of container_instance_healthy
    instance_drained,
    services_stable,
    tasks_stable,
    cluster_stable,
    proceed_with_termination,
    hook_duration,
    exc,                   \* the exception raised in this invocation
    instances,             \* members listed by the last readiness sweep
    drained,               \* task counts reported by the last drain poll
    sweep,                 \* what the last stability sweep listed, summed up
    reports,               \* reporting commands invoked by this invocation
    lastCall,              \* the last external call of this invocation
    drainIssued,           \* this invocation invoked the DRAINING command
    event,                 \* the payload that triggers the handler
    hook_message,
    reportArgs,            \* parameters of this invocation's last reporting command
    drains,                \* the transition's DRAINING commands: accepted or not
    prevWait               \* the elapsed wait last computed by an earlier invocation

hookVars == <<path, userData, activities>>
envVars == <<memberStatus, now, transition, failures, heartbeats>>
localVars == <<bound, cluster_name, container_instance_id, healthy, instance_drained,
               services_stable, tasks_stable, cluster_stable,
               proceed_with_termination, hook_duration>>
obsVars == <<instances, drained, sweep>>
callVars == <<reports, lastCall, drainIssued>>
msgVars == <<event, hook_message>>
histVars == <<reportArgs, drains, prevWait>>
vars == <<hookVars, envVars, pc, remaining, localVars, exc, obsVars, callVars,
          msgVars, histVars>>

NoSweep == [swept |-> FALSE, allSteady |-> FALSE, allMatched |-> FALSE]
NoCounts == [runningTasksCount |-> 0, pendingTasksCount |-> 0]

\* the handler's locals kept from the invocation before
StaleLocals ==
    /\ UNCHANGED <<bound, cluster_name, container_instance_id, healthy,
                   instance_drained, services_stable, tasks_stable,
                   cluster_stable, proceed_with_termination, hook_duration>>
    /\ exc' = "none"
    /\ instances' = <<>>
    /\ drained' = NoCounts
    /\ sweep' = NoSweep
    /\ reports' = <<>>
    /\ lastCall' = "none"
    /\ drainIssued' = FALSE
    /\ reportArgs' = Empty

\* the state a fresh invocation starts from
FreshLocals ==
    /\ bound' = {}
    /\ cluster_name' = Unset
    /\ container_instance_id' = Unset
    /\ healthy' = FALSE
    /\ instance_drained' = FALSE
    /\ services_stable' = FALSE
    /\ tasks_stable' = FALSE
    /\ cluster_stable' = FALSE
    /\ proceed_with_termination' = FALSE
    /\ hook_duration' = 0
    /\ exc' = "none"
    /\ instances' = <<>>
    /\ drained' = NoCounts
    /\ sweep' = NoSweep
    /\ reports' = <<>>
    /\ lastCall' = "none"
    /\ drainIssued' = FALSE
    /\ reportArgs' = Empty

TypeOK ==
    /\ path \in {"launch", "terminate"}
    /\ userData \in UserDatas
    /\ activities \in ActivityHistories
    /\ memberStatus \in {"ACTIVE", "DRAINING", "INACTIVE"}
    /\ now \in Nat
    /\ transition \in {"pending", "CONTINUE", "ABANDON"}
    /\ failures \in 0..MaxFailures
    /\ heartbeats \in Nat
    /\ remaining \in Int
    /\ hook_duration \in Int
    /\ healthy \in BOOLEAN /\ instance_drained \in BOOLEAN
    /\ services_stable \in BOOLEAN /\ tasks_stable \in BOOLEAN
    /\ cluster_stable \in BOOLEAN /\ proceed_with_termination \in BOOLEAN
    /\ drainIssued \in BOOLEAN
    /\ Len(drains) <= MaxFailures + 1
    /\ Len(prevWait) <= 1
    /\ \A i \in 1..Len(drains) : drains[i] \in BOOLEAN

Init ==
    /\ path \in {"launch", "terminate"}
    /\ userData \in UserDatas
    /\ activities \in ActivityHistories
    /\ memberStatus \in IF path = "terminate"
                        THEN {"ACTIVE", "DRAINING"} ELSE {"INACTIVE"}
    /\ now = 0
    /\ transition = "pending"
    /\ failures = 0
    /\ heartbeats = 0
    /\ pc = "idle"
    /\ remaining = 0
    /\ bound = {}
    /\ cluster_name = Unset
    /\ container_instance_id = Unset
    /\ healthy = FALSE
    /\ instance_drained = FALSE
    /\ services_stable = FALSE
    /\ tasks_stable = FALSE
    /\ cluster_stable = FALSE
    /\ proceed_with_termination = FALSE
    /\ hook_duration = 0
    /\ exc = "none"
    /\ instances = <<>>
    /\ drained = NoCounts
    /\ sweep = NoSweep
    /\ reports = <<>>
    /\ lastCall = "none"
    /\ drainIssued = FALSE
    /\ event = DirectEvent
    /\ hook_message = Empty
    /\ reportArgs = Empty
    /\ drains = <<>>
    /\ prevWait = <<>>

\* --------------------------------------------------------------- helpers
ReportingCalls == {"CONTINUE", "ABANDON", "HEARTBEAT"}

\* the except block of the join handler without its raise
HandlerSwallows == IF path = "terminate" THEN "except" ELSE "done"

\* the except block of the retirement handler with the join handler's raise
HandlerReraises == "raised"

\* the normalization inside the try block
CaughtAsInside == IF path = "terminate" THEN "except" ELSE "raised"

\* where an exception raised before the try block goes: out of the handler
Uncaught == "raised"

\* where an exception raised inside the try block goes: the retirement
\* handler catches it, the join handler re-raises it
Handler == IF path = "terminate" THEN "except" ELSE "raised"

\* an external call that fails
Fail(call) ==
    /\ failures < MaxFailures
    /\ failures' = failures + 1
    /\ lastCall' = call
    /\ exc' = "ClientError"
    /\ pc' = Handler

\* the listing and the counts of a probe are gone once the probe is over
ProbeOver ==
    /\ instances' = <<>>
    /\ drained' = NoCounts

\* a step that neither reports nor drains
Step == UNCHANGED <<msgVars, reportArgs, drains, prevWait>>

\* a step that invokes a reporting command
Reporting ==
    /\ reportArgs' = ReportArgs(hook_message)
    /\ UNCHANGED <<msgVars, drains, prevWait>>

\* what a failing query leaves alone
FailFrame ==
    UNCHANGED <<hookVars, memberStatus, now, transition, heartbeats, remaining, localVars,
                obsVars, reports, drainIssued>>

\* --------------------------------------------------------------- actions
\* The scaling group's notification, a heartbeat's echo or the retry of a
\* failed invocation starts the handler.
Invoke ==
    /\ pc \in {"idle", "done", "raised"}
    /\ transition = "pending"
    /\ pc = "done" => now < MaxNow
    /\ pc = "raised" => MissingReads(event.detail) = {}
    /\ \E b \in Budgets : remaining' = b
    /\ pc' = "find_cluster_name"
    /\ FreshLocals
    /\ event' = IF pc = "done" THEN HeartbeatEvent(reportArgs) ELSE event
    /\ hook_message' = Normalize(event'.detail)
    /\ prevWait' = IF "hook_duration" \in bound THEN <<hook_duration>> ELSE prevWait
    /\ UNCHANGED <<hookVars, envVars, drains>>

\* A heartbeat call recorded without one of the four parameters, or the
\* retry of the invocation it triggered, starts the handler: the
\* normalization raises KeyError before the try block.
InvokeMalformed ==
    /\ pc \in {"done", "raised"}
    /\ transition = "pending"
    /\ \/ /\ pc = "done"
          /\ now < MaxNow
          /\ reportArgs # Empty
          /\ event' \in MalformedEvents(reportArgs)
       \/ /\ pc = "raised"
          /\ MissingReads(event.detail) # {}
          /\ event' = event
    /\ \E b \in Budgets : remaining' = b
    /\ hook_message' = NormalizePartial(event'.detail)
    /\ prevWait' = IF "hook_duration" \in bound THEN <<hook_duration>> ELSE prevWait
    /\ bound' = {}
    /\ cluster_name' = Unset
    /\ container_instance_id' = Unset
    /\ healthy' = FALSE
    /\ instance_drained' = FALSE
    /\ services_stable' = FALSE
    /\ tasks_stable' = FALSE
    /\ cluster_stable' = FALSE
    /\ proceed_with_termination' = FALSE
    /\ hook_duration' = 0
    /\ instances' = <<>>
    /\ drained' = NoCounts
    /\ sweep' = NoSweep
    /\ reports' = <<>>
    /\ lastCall' = "none"
    /\ drainIssued' = FALSE
    /\ reportArgs' = Empty
    /\ exc' = "KeyError"
    /\ pc' = Uncaught
    /\ UNCHANGED <<hookVars, envVars, drains>>

\* find_cluster_name, and where each handler goes with its result
FindClusterName ==
    /\ pc = "find_cluster_name"
    /\ Step
    /\ \/ Fail("describe_instance_attribute") /\ FailFrame
       \/ /\ lastCall' = "describe_instance_attribute"
          /\ IF FindClusterNameOf(userData) = NotFound
             THEN /\ exc' = "ClusterNotFound"
                  /\ pc' = Handler
                  /\ UNCHANGED <<bound, cluster_name>>
             ELSE /\ cluster_name' = FindClusterNameOf(userData)
                  /\ bound' = bound \cup {"cluster_name"}
                  /\ pc' = IF path = "terminate" THEN "find_container_instance_id"
                           ELSE "container_instance_healthy"
                  /\ exc' = exc
          /\ UNCHANGED <<hookVars, envVars, remaining, container_instance_id, healthy,
                         instance_drained, services_stable, tasks_stable,
                         cluster_stable, proceed_with_termination, hook_duration,
                         obsVars, reports, drainIssued>>

\* find_container_instance_id
FindContainerInstanceId ==
    /\ pc = "find_container_instance_id"
    /\ Step
    /\ \/ Fail("list_container_instances") /\ FailFrame
       \/ /\ \E listing \in MemberListings :
               /\ instances' = listing
               /\ IF FindContainerInstanceIdOf(listing, InstanceId) = NotFound
                  THEN /\ exc' = "MemberNotFound"
                       /\ pc' = Handler
                       /\ UNCHANGED <<bound, container_instance_id>>
                  ELSE /\ container_instance_id' =
                              FindContainerInstanceIdOf(listing, InstanceId)
                       /\ bound' = bound \cup {"container_instance_id"}
                       /\ pc' = "drain_instance"
                       /\ exc' = exc
          /\ lastCall' = "describe_container_instances"
          /\ UNCHANGED <<hookVars, envVars, remaining, cluster_name, healthy,
                         instance_drained, services_stable, tasks_stable,
                         cluster_stable, proceed_with_termination, hook_duration,
                         drained, sweep, reports, drainIssued>>

\* drain_instance: the DRAINING command goes to an ACTIVE member only
DrainInstance ==
    /\ pc = "drain_instance"
    /\ ProbeOver
    /\ sweep' = sweep
    /\ UNCHANGED <<msgVars, reportArgs, prevWait>>
    /\ \/ /\ Fail("describe_container_instances")
          /\ UNCHANGED <<hookVars, memberStatus, now, transition, heartbeats,
                         remaining, localVars, reports, drainIssued, drains>>
       \/ /\ NeedsDrain(memberStatus)
          /\ Fail("update_container_instances_state")
          /\ drainIssued' = TRUE
          /\ drains' = Append(drains, FALSE)
          /\ UNCHANGED <<hookVars, memberStatus, now, transition, heartbeats,
                         remaining, localVars, reports>>
       \/ /\ NeedsDrain(memberStatus)
          /\ memberStatus' = "DRAINING"
          /\ drainIssued' = TRUE
          /\ drains' = Append(drains, TRUE)
          /\ lastCall' = "update_container_instances_state"
          /\ pc' = "check_instance_drained"
          /\ UNCHANGED <<hookVars, now, transition, failures, heartbeats,
                         remaining, localVars, exc, reports>>
       \/ /\ ~NeedsDrain(memberStatus)
          /\ lastCall' = "describe_container_instances"
          /\ pc' = "check_instance_drained"
          /\ UNCHANGED <<hookVars, envVars, remaining, localVars, exc, reports,
                         drainIssued, drains>>

\* check_instance_drained, one poll up to the sleep
CheckInstanceDrained ==
    /\ pc = "check_instance_drained"
    /\ Step
    /\ \/ Fail("describe_container_instances") /\ FailFrame
       \/ /\ \E r \in 0..MaxTasks, p \in 0..MaxTasks :
               /\ drained' = [runningTasksCount |-> r, pendingTasksCount |-> p]
               /\ IF TasksGone(r, p)
                  THEN /\ instance_drained' = TRUE
                       /\ bound' = bound \cup {"instance_drained"}
                       /\ pc' = "list_services"
                  ELSE IF remaining <= MarginMillis
                  THEN /\ instance_drained' = FALSE
                       /\ bound' = bound \cup {"instance_drained"}
                       /\ pc' = "find_hook_duration"
                  ELSE /\ pc' = "sleep_drained"
                       /\ UNCHANGED <<instance_drained, bound>>
          /\ lastCall' = "describe_container_instances"
          /\ UNCHANGED <<hookVars, envVars, remaining, cluster_name,
                         container_instance_id, healthy, services_stable,
                         tasks_stable, cluster_stable, proceed_with_termination,
                         hook_duration, exc, instances, sweep,
                         reports, drainIssued>>

\* a sleep during which no time passes
SleepStandsStill ==
    /\ pc \in {"sleep_healthy", "sleep_drained", "sleep_stable"}
    /\ Step
    /\ pc' = CASE pc = "sleep_healthy" -> "container_instance_healthy"
               [] pc = "sleep_drained" -> "check_instance_drained"
               [] pc = "sleep_stable" -> "list_services"
    /\ ProbeOver
    /\ sweep' = NoSweep
    /\ UNCHANGED <<hookVars, envVars, remaining, localVars, exc, callVars>>

\* time.sleep(30) of the three polling loops
Sleep ==
    /\ pc \in {"sleep_healthy", "sleep_drained", "sleep_stable"}
    /\ Step
    /\ now' = now + SleepSeconds
    /\ remaining' = remaining - SleepMillis
    /\ pc' = CASE pc = "sleep_healthy" -> "container_instance_healthy"
               [] pc = "sleep_drained" -> "check_instance_drained"
               [] pc = "sleep_stable" -> "list_services"
    /\ ProbeOver
    /\ sweep' = NoSweep
    /\ UNCHANGED <<hookVars, memberStatus, transition, failures, heartbeats,
                   localVars, exc, callVars>>

\* what a listing holds, whatever its pages are
AllSteady(pages) ==
    \A i \in 1..Len(Flatten(pages)) :
        Flatten(pages)[i] # <<>> /\ ServiceReady(Flatten(pages)[i])

AllMatched(pages) ==
    \A i \in 1..Len(Flatten(pages)) : TaskMatched(Flatten(pages)[i])

\* check_stable_cluster, first half of a sweep: the services
ListServices ==
    /\ pc = "list_services"
    /\ Step
    /\ \/ Fail("list_services") /\ FailFrame
       \/ /\ \E listing \in ServiceListings :
               IF ServicesRaise(listing)
               THEN /\ exc' = "IndexError"
                    /\ pc' = Handler
                    /\ sweep' = NoSweep
                    /\ UNCHANGED services_stable
               ELSE /\ services_stable' = ServicesSweep(listing)
                    /\ sweep' = [swept |-> FALSE, allSteady |-> AllSteady(listing),
                                 allMatched |-> FALSE]
                    /\ pc' = "begin_tasks"
                    /\ exc' = exc
          /\ lastCall' = "describe_services"
          /\ UNCHANGED <<hookVars, envVars, remaining, bound, cluster_name,
                         container_instance_id, healthy, instance_drained,
                         tasks_stable, cluster_stable, proceed_with_termination,
                         hook_duration, instances, drained, reports, drainIssued>>

\* check_stable_cluster, between the two halves: the services are all
\* listed, tasks_stable = True
BeginTasks ==
    /\ pc = "begin_tasks"
    /\ Step
    /\ tasks_stable' = TRUE
    /\ pc' = "list_tasks"
    /\ UNCHANGED <<hookVars, envVars, remaining, bound, cluster_name,
                   container_instance_id, healthy, instance_drained,
                   services_stable, cluster_stable, proceed_with_termination,
                   hook_duration, exc, obsVars, callVars>>

\* check_stable_cluster, second half of a sweep: the tasks
ListTasks ==
    /\ pc = "list_tasks"
    /\ Step
    /\ \/ Fail("list_tasks") /\ FailFrame
       \/ /\ \E listing \in TaskListings :
               /\ tasks_stable' = TaskPages(listing, tasks_stable)
               /\ sweep' = [swept |-> TRUE,
                            allSteady |-> sweep.allSteady,
                            allMatched |-> AllMatched(listing)]
          /\ lastCall' = "describe_tasks"
          /\ pc' = "stable_time_check"
          /\ UNCHANGED <<hookVars, envVars, remaining, bound, cluster_name,
                         container_instance_id, healthy, instance_drained,
                         services_stable, cluster_stable,
                         proceed_with_termination, hook_duration, exc, instances,
                         drained, reports, drainIssued>>

\* check_stable_cluster, end of a sweep: the time check, then the sleep or
\* the loop's exit
StableTimeCheck ==
    /\ pc = "stable_time_check"
    /\ Step
    /\ IF remaining <= MarginMillis
       THEN /\ cluster_stable' = FALSE
            /\ bound' = bound \cup {"cluster_stable"}
            /\ pc' = "find_hook_duration"
       ELSE IF services_stable = FALSE \/ tasks_stable = FALSE
       THEN /\ pc' = "sleep_stable"
            /\ UNCHANGED <<cluster_stable, bound>>
       ELSE /\ cluster_stable' = TRUE
            /\ bound' = bound \cup {"cluster_stable"}
            /\ pc' = "report_continue"
    /\ UNCHANGED <<hookVars, envVars, remaining, cluster_name,
                   container_instance_id, healthy, instance_drained,
                   services_stable, tasks_stable, proceed_with_termination,
                   hook_duration, exc, instances, drained, sweep,
                   callVars>>

\* container_instance_healthy, one sweep up to the sleep
ContainerInstanceHealthy ==
    /\ pc = "container_instance_healthy"
    /\ Step
    /\ \/ Fail("list_container_instances") /\ FailFrame
       \/ /\ \E listing \in MemberListings :
               /\ instances' = listing
               /\ IF SweepHealthy(listing, InstanceId)
                  THEN /\ healthy' = TRUE
                       /\ bound' = bound \cup {"healthy"}
                       /\ pc' = "report_continue"
                  ELSE IF remaining <= MarginMillis
                  THEN /\ healthy' = FALSE
                       /\ bound' = bound \cup {"healthy"}
                       /\ pc' = "find_hook_duration"
                  ELSE /\ pc' = "sleep_healthy"
                       /\ UNCHANGED <<healthy, bound>>
          /\ lastCall' = "describe_container_instances"
          /\ UNCHANGED <<hookVars, envVars, remaining, cluster_name,
                         container_instance_id, instance_drained, services_stable,
                         tasks_stable, cluster_stable, proceed_with_termination,
                         hook_duration, exc, drained, sweep,
                         reports, drainIssued>>

\* a reporting command: invoked, and accepted or failed
Invoked(cmd, accepted) == Append(reports, [cmd |-> cmd, ok |-> accepted])

\* complete_lifecycle_action(CONTINUE) after a conclusive probe
ReportContinue ==
    /\ pc = "report_continue"
    /\ Reporting
    /\ ProbeOver
    /\ sweep' = sweep
    /\ \/ /\ Fail("CONTINUE")
          /\ reports' = Invoked("CONTINUE", FALSE)
          /\ UNCHANGED <<hookVars, memberStatus, now, transition, heartbeats, remaining,
                         localVars, drainIssued>>
       \/ /\ reports' = Invoked("CONTINUE", TRUE)
          /\ lastCall' = "CONTINUE"
          /\ transition' = "CONTINUE"
          /\ proceed_with_termination' = (path = "terminate")
          /\ pc' = "done"
          /\ UNCHANGED <<hookVars, memberStatus, now, failures, heartbeats, remaining, bound,
                         cluster_name, container_instance_id, healthy,
                         instance_drained, services_stable, tasks_stable,
                         cluster_stable, hook_duration, exc, drainIssued>>

\* find_hook_duration (the join handler calls it twice in a row)
FindHookDuration ==
    /\ pc = "find_hook_duration"
    /\ Step
    /\ ProbeOver
    /\ sweep' = sweep
    /\ \/ /\ Fail("describe_scaling_activities")
          /\ UNCHANGED <<hookVars, memberStatus, now, transition, heartbeats, remaining,
                         localVars, reports, drainIssued>>
       \/ /\ hook_duration' = HookDurationOf(activities, InstanceId, now)
          /\ bound' = bound \cup {"hook_duration"}
          /\ lastCall' = "describe_scaling_activities"
          /\ pc' = "report_decision"
          /\ UNCHANGED <<hookVars, envVars, remaining, cluster_name,
                         container_instance_id, healthy, instance_drained,
                         services_stable, tasks_stable, cluster_stable,
                         proceed_with_termination, exc, reports, drainIssued>>

\* ABANDON or the heartbeat, after an inconclusive probe
ReportDecision ==
    /\ pc = "report_decision"
    /\ Reporting
    /\ \/ /\ Fail(Decision(hook_duration))
          /\ reports' = Invoked(Decision(hook_duration), FALSE)
          /\ UNCHANGED <<hookVars, memberStatus, now, transition, heartbeats, remaining,
                         localVars, obsVars, drainIssued>>
       \/ /\ reports' = Invoked(Decision(hook_duration), TRUE)
          /\ lastCall' = Decision(hook_duration)
          /\ transition' = IF Decision(hook_duration) = "ABANDON"
                           THEN "ABANDON" ELSE "pending"
          /\ heartbeats' = IF Decision(hook_duration) = "ABANDON"
                           THEN heartbeats ELSE heartbeats + 1
          /\ pc' = "done"
          /\ UNCHANGED <<hookVars, memberStatus, now, failures, remaining,
                         localVars, exc, obsVars, drainIssued>>

\* the retirement handler's except block: complete_lifecycle_action(CONTINUE)
Except ==
    /\ pc = "except"
    /\ Reporting
    /\ ProbeOver
    /\ sweep' = sweep
    /\ \/ /\ failures < MaxFailures
          /\ failures' = failures + 1
          /\ reports' = Invoked("CONTINUE", FALSE)
          /\ lastCall' = "CONTINUE"
          /\ pc' = "raised"
          /\ UNCHANGED <<hookVars, memberStatus, now, transition, heartbeats, remaining,
                         localVars, exc, drainIssued>>
       \/ /\ reports' = Invoked("CONTINUE", TRUE)
          /\ lastCall' = "CONTINUE"
          /\ transition' = "CONTINUE"
          /\ pc' = "done"
          /\ UNCHANGED <<hookVars, memberStatus, now, failures, heartbeats, remaining,
                         localVars, exc, drainIssued>>

Next ==
    \/ Invoke
    \/ InvokeMalformed
    \/ FindClusterName
    \/ FindContainerInstanceId
    \/ DrainInstance
    \/ CheckInstanceDrained
    \/ Sleep
    \/ ListServices
    \/ BeginTasks
    \/ ListTasks
    \/ StableTimeCheck
    \/ ContainerInstanceHealthy
    \/ ReportContinue
    \/ FindHookDuration
    \/ ReportDecision
    \/ Except

Spec == Init /\ [][Next]_vars

\* The retirement of an instance whose "Terminating" record stays listed:
\* the handler keeps running, and a heartbeat's echo or the retry of a
\* failed invocation keeps arriving.
RetireInit ==
    /\ Init
    /\ path = "terminate"
    /\ activities = TerminateHistory

NextRetire ==
    \/ Invoke
    \/ FindClusterName
    \/ FindContainerInstanceId
    \/ DrainInstance
    \/ CheckInstanceDrained
    \/ Sleep
    \/ ListServices
    \/ BeginTasks
    \/ ListTasks
    \/ StableTimeCheck
    \/ ReportContinue
    \/ FindHookDuration
    \/ ReportDecision
    \/ Except

RetireSpec == RetireInit /\ [][NextRetire]_vars /\ WF_vars(NextRetire)

\* Either handler, kept running, for an instance with the record of its
\* termination listed: a step that can be taken is taken.
LiveInit == Init /\ activities = TerminateHistory

LiveSpec == LiveInit /\ [][Next]_vars /\ WF_vars(Next)

\* ================================================================ claims
\* what the claims speak of
Ended == pc \in {"done", "raised"}

InvokedCmds == {reports[i].cmd : i \in 1..Len(reports)}
Accepted == {i \in 1..Len(reports) : reports[i].ok}

\* the probe of this invocation returned false / returned true
Inconclusive ==
    \/ path = "launch" /\ "healthy" \in bound /\ ~healthy
    \/ path = "terminate" /\ "instance_drained" \in bound /\ ~instance_drained
    \/ path = "terminate" /\ "cluster_stable" \in bound /\ ~cluster_stable

Conclusive ==
    \/ path = "launch" /\ "healthy" \in bound /\ healthy
    \/ path = "terminate" /\ "cluster_stable" \in bound /\ cluster_stable

\* C1, as stated: every invocation that has ended invoked exactly one
\* reporting command, and that was its last external call.
C1Original ==
    Ended => Len(reports) = 1 /\ lastCall \in ReportingCalls

\* C1, amended: an invocation that returns has exactly one accepted reporting
\* command, the last external call, preceded by at most one failed reporting
\* command (none on the join path); an invocation that ends in an unhandled
\* error has no accepted reporting command; with no failed reporting command
\* a returning invocation invoked exactly one.
C1Theorem ==
    /\ pc = "done" =>
          /\ Accepted = {Len(reports)}
          /\ Len(reports) \in {1, 2}
          /\ path = "launch" => Len(reports) = 1
          /\ lastCall = reports[Len(reports)].cmd
    /\ pc = "raised" => Accepted = {} /\ Len(reports) <= 2
    /\ Cardinality(Accepted) <= 1

\* C1 witness: the retirement handler returned after a heartbeat failed and
\* the catch reported CONTINUE.
C1Witness ==
    /\ pc = "done"
    /\ path = "terminate"
    /\ reports = << [cmd |-> "HEARTBEAT", ok |-> FALSE],
                    [cmd |-> "CONTINUE", ok |-> TRUE] >>

\* C2: after an inconclusive probe the reporting command chosen is ABANDON
\* exactly when the elapsed wait is above 3600 s and the heartbeat exactly
\* when it is at most 3600 s; neither is invoked after a conclusive probe.
C2Theorem ==
    /\ "ABANDON" \in InvokedCmds =>
          Inconclusive /\ "hook_duration" \in bound /\ hook_duration > GlobalTimeout
    /\ "HEARTBEAT" \in InvokedCmds =>
          Inconclusive /\ "hook_duration" \in bound /\ hook_duration <= GlobalTimeout
    /\ ("hook_duration" \in bound /\ pc # "report_decision") =>
          /\ Inconclusive
          /\ reports # <<>>
          /\ reports[1].cmd =
                IF hook_duration > GlobalTimeout THEN "ABANDON" ELSE "HEARTBEAT"
    /\ Conclusive => InvokedCmds \subseteq {"CONTINUE"}

\* C2 witness: an elapsed wait of exactly 3600 s was answered by a heartbeat
\* and the invocation it triggered, 30 s later, by ABANDON.
C2Witness ==
    /\ pc = "done"
    /\ Inconclusive
    /\ heartbeats = 1
    /\ hook_duration = GlobalTimeout + SleepSeconds
    /\ reports = << [cmd |-> "ABANDON", ok |-> TRUE] >>

\* C3: with the "Terminating" record listed and the clock advancing, a
\* retirement is not heartbeated forever: it is eventually completed with
\* CONTINUE or ABANDON, and once an invocation has computed an elapsed wait
\* above 3600 s no heartbeat is invoked any more.
C3Theorem ==
    /\ <>(transition # "pending")
    /\ [](("hook_duration" \in bound /\ hook_duration > GlobalTimeout)
            => []("HEARTBEAT" \notin InvokedCmds))

\* C3 witness: a retirement that was heartbeated is abandoned.
C3Witness ==
    /\ path = "terminate"
    /\ heartbeats >= 1
    /\ transition = "ABANDON"
    /\ hook_duration > GlobalTimeout

\* C4, as stated: on the join path, with the record of the instance's launch
\* listed, the elapsed wait is the time since the launch began, and no
\* heartbeat is sent once the launch is older than 3600 s.
C4Claim ==
    (path = "launch" /\ activities = LaunchHistory) =>
        /\ "hook_duration" \in bound => hook_duration = now - ActionStart
        /\ "HEARTBEAT" \in InvokedCmds => now - ActionStart <= GlobalTimeout

\* C5, as stated: a retirement invocation whose poll saw no running and no
\* pending task and whose last sweep found every service steady and every
\* task matched invokes CONTINUE only, without an elapsed-time lookup.
C5Claim ==
    (/\ path = "terminate"
     /\ "instance_drained" \in bound /\ instance_drained
     /\ sweep.swept /\ sweep.allSteady /\ sweep.allMatched
     /\ pc # "stable_time_check") =>
        /\ InvokedCmds \subseteq {"CONTINUE"}
        /\ "hook_duration" \notin bound
        /\ pc \notin {"find_hook_duration", "report_decision", "sleep_stable"}

\* the members a listing holds, page by page
ListedMembers ==
    {instances[p][e] : <<p, e>> \in
        {pe \in (1..Len(instances)) \X (1..MaxListing) : pe[2] <= Len(instances[pe[1]])}}

\* C6: a retirement invocation whose cluster resolution fails (no ECS_CLUSTER
\* setting) or whose member translation fails (no listed member of the
\* instance) invokes CONTINUE, and no DRAINING command, heartbeat or ABANDON.
C6Theorem ==
    /\ exc = "ClusterNotFound" => \A i \in 1..Len(userData) : userData[i].key # "ECS_CLUSTER"
    /\ (pc = "except" /\ exc = "MemberNotFound") =>
          \A m \in ListedMembers : m.ec2InstanceId # InstanceId
    /\ (/\ path = "terminate"
        /\ \A i \in 1..Len(userData) : userData[i].key # "ECS_CLUSTER"
        /\ pc \notin {"idle", "find_cluster_name"}
        /\ exc # "KeyError") =>
          exc \in {"ClusterNotFound", "ClientError"}
    /\ (path = "terminate" /\ exc \in {"ClusterNotFound", "MemberNotFound"}) =>
          /\ pc \in {"except", "done", "raised"}
          /\ ~drainIssued
          /\ InvokedCmds \subseteq {"CONTINUE"}
          /\ Ended => Len(reports) = 1 /\ reports[1].cmd = "CONTINUE"

\* C6 witness: no listed member was of the instance, and the invocation
\* returned after reporting CONTINUE.
C6Witness ==
    /\ pc = "done"
    /\ exc = "MemberNotFound"
    /\ ~drainIssued
    /\ reports = << [cmd |-> "CONTINUE", ok |-> TRUE] >>

\* C7, as stated: a join invocation in which anything failed ends in an
\* unhandled error without having invoked any reporting command.
C7Original ==
    (path = "launch" /\ exc # "none") => pc = "raised" /\ reports = <<>>

\* C7, amended: a join invocation in which anything failed ends in an
\* unhandled error with no reporting command accepted, so the transition
\* stays pending; the only reporting command it can have invoked is the
\* failing call itself.
C7Theorem ==
    (path = "launch" /\ exc # "none") =>
        /\ pc = "raised"
        /\ Accepted = {}
        /\ transition = "pending"
        /\ Len(reports) <= 1
        /\ reports # <<>> => exc = "ClientError" /\ lastCall = reports[1].cmd

\* C7 witness: the join handler ended in the unhandled ValueError of a
\* cluster that could not be resolved, with nothing reported.
C7Witness ==
    /\ path = "launch"
    /\ pc = "raised"
    /\ exc = "ClusterNotFound"
    /\ reports = <<>>
    /\ transition = "pending"

\* C8, as stated: check_stable_cluster returns true exactly when its last
\* sweep listed only steady services and only matched tasks.
C8Claim ==
    ("cluster_stable" \in bound /\ sweep.swept) =>
        (cluster_stable <=> (sweep.allSteady /\ sweep.allMatched))

\* C9, as stated: once all pages of a dimension are consumed, the flag of that
\* dimension is true only if no page held a not-steady service (a mismatched
\* task).
C9Claim ==
    /\ pc = "begin_tasks" => (services_stable => sweep.allSteady)
    /\ pc = "stable_time_check" => (tasks_stable => sweep.allMatched)

\* the last readiness sweep listed an ACTIVE, agent-connected member of the
\* instance
ListsReady ==
    \E m \in ListedMembers :
        m.ec2InstanceId = InstanceId /\ m.status = "ACTIVE" /\ m.agentConnected

\* C10: container_instance_healthy returns true exactly when the sweep lists
\* an ACTIVE, agent-connected member of the instance; it returns false when a
\* sweep without such a member ends with at most 40 s remaining, and sleeps
\* otherwise.
C10Theorem ==
    path = "launch" =>
        /\ pc = "report_continue" => "healthy" \in bound /\ healthy /\ ListsReady
        /\ pc = "find_hook_duration" =>
              /\ "healthy" \in bound /\ ~healthy
              /\ ~ListsReady
              /\ remaining <= MarginMillis
        /\ pc = "sleep_healthy" =>
              /\ "healthy" \notin bound
              /\ ~ListsReady
              /\ remaining > MarginMillis

\* C10 witness: after a sleep, with no more than the margin left, the sweep
\* listed the ready member behind another instance's and the prober returned
\* true.
C10Witness ==
    /\ path = "launch"
    /\ pc = "report_continue"
    /\ healthy
    /\ now > 0
    /\ remaining <= MarginMillis
    /\ instances = << << Member(OtherInstanceId, "ACTIVE", TRUE),
                         Member(InstanceId, "ACTIVE", TRUE) >> >>

\* C11: check_instance_drained returns true exactly on a poll that reports no
\* running and no pending task; it returns false exactly on a poll that
\* reports some while at most 40 s remain, and sleeps on such a poll otherwise.
C11Theorem ==
    path = "terminate" =>
        /\ ("instance_drained" \in bound /\ instance_drained) =>
              drained.runningTasksCount = 0 /\ drained.pendingTasksCount = 0
        /\ pc = "list_services" => "instance_drained" \in bound /\ instance_drained
        /\ ("instance_drained" \in bound /\ ~instance_drained
              /\ pc = "find_hook_duration") =>
              /\ drained.runningTasksCount + drained.pendingTasksCount > 0
              /\ remaining <= MarginMillis
        /\ pc = "sleep_drained" =>
              /\ "instance_drained" \notin bound
              /\ drained.runningTasksCount + drained.pendingTasksCount > 0
              /\ remaining > MarginMillis

\* C11 witness: after a sleep the poll still reported a pending task, with
\* no more than the margin left, and the function returned false.
C11Witness ==
    /\ pc = "find_hook_duration"
    /\ "instance_drained" \in bound /\ ~instance_drained
    /\ drained = [runningTasksCount |-> 0, pendingTasksCount |-> 1]
    /\ now > 0

\* the DRAINING commands of the transition that were accepted
DrainsAccepted == {i \in 1..Len(drains) : drains[i]}

\* C12, as stated: over all invocations of one transition the DRAINING
\* command is invoked at most once.
C12Original == Len(drains) <= 1

\* C12, amended: drain_instance invokes the DRAINING command exactly when the
\* member's status is ACTIVE, and against another status it invokes nothing and
\* raises nothing; over all invocations the command is accepted at most once,
\* nothing is invoked after it was accepted, and each further invocation of
\* it follows a failure of it.
C12Theorem ==
    /\ [](/\ Cardinality(DrainsAccepted) <= 1
          /\ DrainsAccepted \subseteq {Len(drains)}
          /\ Len(drains) <= failures + 1
          /\ DrainsAccepted # {} => memberStatus = "DRAINING")
    /\ [][pc = "drain_instance" =>
            /\ drainIssued' <=>
                  /\ memberStatus = "ACTIVE"
                  /\ ~(exc' = "ClientError" /\ lastCall' = "describe_container_instances")
            /\ Len(drains') = Len(drains) + (IF drainIssued' THEN 1 ELSE 0)
            /\ (memberStatus # "ACTIVE" /\ exc' # "ClientError") =>
                  /\ exc' = "none"
                  /\ pc' = "check_instance_drained"
                  /\ memberStatus' = memberStatus]_vars

\* C12 witness: an invocation triggered by a heartbeat passed drain_instance
\* against the member the first invocation had set to DRAINING, and invoked
\* no command.
C12Witness ==
    /\ pc = "check_instance_drained"
    /\ heartbeats >= 1
    /\ drains = <<TRUE>>
    /\ ~drainIssued
    /\ memberStatus = "DRAINING"

\* C13, as stated: find_hook_duration never returns a negative value.
C13Claim == "hook_duration" \in bound => hook_duration >= 0

\* C14: the elapsed wait an invocation computes is at least the one any
\* earlier invocation of the transition computed, and computing it changes
\* nothing outside the invocation.
C14Theorem ==
    /\ [](("hook_duration" \in bound /\ prevWait # <<>>) =>
              hook_duration >= prevWait[1])
    /\ [][pc = "find_hook_duration" =>
            UNCHANGED <<hookVars, memberStatus, now, transition, heartbeats>>]_vars

\* C14 witness: 3600 s computed by the first invocation, 3630 s by the one
\* its heartbeat triggered.
C14Witness ==
    /\ "hook_duration" \in bound
    /\ prevWait = <<GlobalTimeout>>
    /\ hook_duration = GlobalTimeout + SleepSeconds

\* the four values the transition is known by, as a reporting command takes them
CanonicalArgs ==
    [LifecycleHookName |-> HookName, AutoScalingGroupName |-> GroupName,
     LifecycleActionToken |-> ActionToken, InstanceId |-> InstanceId]

\* C15: whichever shape the payload has, normalization yields the same four
\* canonical fields, every reporting command carries these four values, and
\* the payload is taken as direct exactly when it has the key
\* LifecycleHookName.
C15Theorem ==
    (pc # "idle" /\ MissingReads(event.detail) = {}) =>
        /\ ReportArgs(hook_message) = CanonicalArgs
        /\ "LifecycleHookName" \in DOMAIN event.detail => hook_message = event.detail
        /\ "LifecycleHookName" \notin DOMAIN event.detail =>
              /\ "requestParameters" \in DOMAIN event.detail
              /\ \A k \in DOMAIN event.detail.requestParameters :
                    hook_message[k] = event.detail.requestParameters[k]
        /\ reports # <<>> => reportArgs = CanonicalArgs

\* C15 witness: an invocation triggered by a payload of the heartbeat shape
\* sent a heartbeat itself.
C15Witness ==
    /\ pc = "done"
    /\ "requestParameters" \in DOMAIN event.detail
    /\ reports = << [cmd |-> "HEARTBEAT", ok |-> TRUE] >>
    /\ reportArgs = CanonicalArgs

\* C16, as stated: a retirement invocation that translated the member has
\* CONTINUE accepted only after a poll saw the member drained and a sweep
\* found the cluster stable.
C16Claim ==
    (/\ path = "terminate"
     /\ "container_instance_id" \in bound
     /\ \E i \in Accepted : reports[i].cmd = "CONTINUE") =>
        /\ "instance_drained" \in bound /\ instance_drained
        /\ "cluster_stable" \in bound /\ cluster_stable

\* positions of the stability sweep
SweepPositions == {"list_services", "begin_tasks", "list_tasks",
                   "stable_time_check", "sleep_stable"}

\* C17: the retirement handler resolves the cluster, translates the member,
\* checks the drain command, polls, and sweeps only after a poll saw no
\* running and no pending task; an inconclusive drain goes to the elapsed-time
\* decision without a sweep.
C17Theorem ==
    /\ [](path = "terminate" =>
            /\ pc \in SweepPositions => "instance_drained" \in bound /\ instance_drained
            /\ ("instance_drained" \in bound /\ ~instance_drained) =>
                  /\ sweep = NoSweep
                  /\ "cluster_stable" \notin bound
                  /\ pc \in {"find_hook_duration", "report_decision", "except",
                              "done", "raised"}
            /\ pc \in {"check_instance_drained", "sleep_drained"} =>
                  "container_instance_id" \in bound /\ "instance_drained" \notin bound)
    /\ [][(path = "terminate" /\ pc' # pc) =>
            /\ pc' = "find_cluster_name" => pc \in {"idle", "done", "raised"}
            /\ pc' = "find_container_instance_id" => pc = "find_cluster_name"
            /\ pc' = "drain_instance" => pc = "find_container_instance_id"
            /\ pc' = "check_instance_drained" => pc \in {"drain_instance", "sleep_drained"}
            /\ pc' = "sleep_drained" => pc = "check_instance_drained"
            /\ pc' = "list_services" =>
                  \/ /\ pc = "check_instance_drained"
                     /\ drained' = [runningTasksCount |-> 0, pendingTasksCount |-> 0]
                  \/ pc = "sleep_stable"
            /\ pc' = "begin_tasks" => pc = "list_services"
            /\ pc' = "list_tasks" => pc = "begin_tasks"
            /\ pc' = "stable_time_check" => pc = "list_tasks"
            /\ pc' = "sleep_stable" => pc = "stable_time_check"
            /\ pc' = "report_continue" => pc = "stable_time_check"
            /\ pc' = "find_hook_duration" =>
                  pc \in {"check_instance_drained", "stable_time_check"}
            /\ pc' = "report_decision" => pc = "find_hook_duration"]_vars

\* C17 witness: the DRAINING command was accepted, the polls stayed
\* inconclusive, and the invocation is at the elapsed-time decision with no
\* sweep made.
C17Witness ==
    /\ path = "terminate"
    /\ pc = "report_decision"
    /\ drainIssued
    /\ "instance_drained" \in bound /\ ~instance_drained
    /\ sweep = NoSweep

\* C18: no sleep of the three polling loops starts with 40 s or less
\* remaining, and the stability loop does not sleep after a sweep that found
\* every service steady and every task matched.
C18Theorem ==
    /\ pc \in {"sleep_healthy", "sleep_drained", "sleep_stable"} =>
          remaining > 40 * 1000
    /\ pc = "sleep_stable" =>
          /\ ~(services_stable /\ tasks_stable)
          /\ ~(sweep.allSteady /\ sweep.allMatched)
    /\ pc = "sleep_healthy" => ~ListsReady
    /\ pc = "sleep_drained" =>
          drained.runningTasksCount + drained.pendingTasksCount > 0

\* C18 witness: the stability loop is about to sleep after a sweep that
\* listed a mismatched task, with more than the margin left.
C18Witness ==
    /\ pc = "sleep_stable"
    /\ sweep.swept /\ sweep.allSteady /\ ~sweep.allMatched
    /\ remaining = MarginMillis + SleepMillis

\* C19: every invocation ends, in a return or in an unhandled error.
C19Theorem == (pc \notin {"idle", "done", "raised"}) ~> Ended

\* C19 witness: an invocation returned after its stability loop had slept
\* down to the margin and given up.
C19Witness ==
    /\ pc = "done"
    /\ "cluster_stable" \in bound /\ ~cluster_stable
    /\ remaining <= MarginMillis
    /\ now > 0

\* the matching records of the history, by their place in listing order
MatchingRecords ==
    {i \in 1..Len(Flatten(activities)) :
        /\ Flatten(activities)[i].verb = "Terminating"
        /\ Flatten(activities)[i].instance = InstanceId}

\* C20: the elapsed wait is the time since the start of the last matching
\* record in listing order over all pages, and 0 if none matches.
C20Theorem ==
    "hook_duration" \in bound =>
        hook_duration =
            IF MatchingRecords = {} THEN 0
            ELSE now - Flatten(activities)[
                     CHOOSE i \in MatchingRecords :
                         \A j \in MatchingRecords : j <= i].StartTime

\* C20 witness: with two matching records on two pages and a record that
\* does not match after each, the elapsed wait runs from the second.
C20Witness ==
    /\ activities = RepeatedHistory
    /\ "hook_duration" \in bound
    /\ hook_duration = now - ActionStart
    /\ now > 0

\* the reporting command that the payload, the answers received and the
\* clocks of this invocation call for
ChosenCommand ==
    IF exc # "none" \/ Conclusive THEN "CONTINUE"
    ELSE IF HookDurationOf(activities, InstanceId, now) > GlobalTimeout THEN "ABANDON"
    ELSE "HEARTBEAT"

\* C21: every invocation starts with nothing but its payload, whatever ran
\* before it, and the reporting command it ends with is the one called for
\* by what this invocation was given and was answered.
C21Theorem ==
    /\ pc = "find_cluster_name" =>
          /\ bound = {}
          /\ cluster_name = Unset /\ container_instance_id = Unset
          /\ ~healthy /\ ~instance_drained /\ ~cluster_stable
          /\ ~services_stable /\ ~tasks_stable /\ ~proceed_with_termination
          /\ hook_duration = 0
          /\ exc = "none"
          /\ reports = <<>> /\ reportArgs = Empty /\ lastCall = "none"
          /\ ~drainIssued
          /\ instances = <<>> /\ drained = NoCounts /\ sweep = NoSweep
          /\ hook_message = Normalize(event.detail)
    /\ "hook_duration" \in bound =>
          hook_duration = HookDurationOf(activities, InstanceId, now)
    /\ pc = "done" =>
          /\ reports[Len(reports)].cmd = ChosenCommand
          /\ reportArgs = ReportArgs(Normalize(event.detail))

\* C21 witness: after an invocation that failed and one that sent a
\* heartbeat, a third invocation ended with the heartbeat its own probe and
\* lookup called for.
C21Witness ==
    /\ pc = "done"
    /\ failures = 1
    /\ heartbeats = 2
    /\ Inconclusive
    /\ reports = << [cmd |-> "HEARTBEAT", ok |-> TRUE] >>

\* C22: a payload of the heartbeat shape that lacks one of the four
\* parameters ends the invocation in a KeyError of the normalization, before
\* any external call and with no reporting command invoked, on the retirement
\* path too; the transition stays pending.
C22Theorem ==
    /\ (pc # "idle" /\ MissingReads(event.detail) # {}) =>
          /\ pc = "raised"
          /\ exc = "KeyError"
          /\ lastCall = "none"
          /\ reports = <<>>
          /\ ~drainIssued
          /\ bound = {}
          /\ transition = "pending"
    /\ exc = "KeyError" =>
          /\ "LifecycleHookName" \notin DOMAIN event.detail
          /\ MissingReads(event.detail) # {}
          /\ CanonicalKeys \ DOMAIN hook_message # {}

\* C22 witness: the retirement handler, triggered by a heartbeat recorded
\* without the instance, ended in the KeyError with nothing reported.
C22Witness ==
    /\ path = "terminate"
    /\ pc = "raised"
    /\ exc = "KeyError"
    /\ "instanceId" \notin DOMAIN event.detail.requestParameters
    /\ hook_message = event.detail.requestParameters
    /\ reports = <<>>
    /\ transition = "pending"

====
